---- MODULE Spec2Model ----
(***************************************************************************)
(* A state-machine model of emcee's EnsembleSampler (src/emcee/ensemble.py) *)
(* together with the collaborators it drives: the storage Backend, the     *)
(* walker State, the Moves and numpy's RandomState streams.                *)
(*                                                                         *)
(* One sampler object and one backend object are tracked.  The generator   *)
(* returned by sample() is modelled as a frame (gen) whose position (pc)   *)
(* moves only when its consumer pulls; one proposal round is one step.     *)
(***************************************************************************)
EXTENDS Integers, Sequences, FiniteSets, TLC

(* ------------------------------ bounds --------------------------------- *)
NWalkers == 2        \* walkers of the ensemble
NCoord == 3          \* a coordinate entry is one of 0 .. NCoord-1
RngMod == 4          \* number of distinct snapshots of a random stream
MaxIterations == 2   \* largest `iterations` / `nsteps` argument
MaxThin == 2         \* largest `thin_by` argument
MaxOps == 3          \* operations the callers perform after the first construction

(* --------------------------- value encodings --------------------------- *)
NDim == 1            \* ndim of the sampler (a walker is a vector of NDim entries)
NaN == 1             \* np.nan as a log-probability (real ones are <= 0)
NoRState == 0 - 1    \* random_state None
BadRState == 0 - 2   \* a snapshot RandomState.set_state rejects
None == <<>>         \* an absent log_prob / blobs

Walkers == 1 .. NWalkers
Coord == 0 .. (NCoord - 1)
RStates == 0 .. (RngMod - 1)

(* The walker State: coords[w] is walker w's vector. *)
State(coords, log_prob, blobs, random_state) ==
    [coords |-> coords, log_prob |-> log_prob, blobs |-> blobs,
     random_state |-> random_state]

(* Python's None where a State is expected. *)
NoneState == State(<<>>, None, None, NoRState)

(* A shape that takes the number of rows for granted. *)
Shape_RowsAssumed(coords) ==
    <<NWalkers, IF Len(coords) = 0 THEN 0 ELSE Len(coords[1])>>

(* np.shape(coords) for a rectangular array given as a sequence of rows. *)
Shape(coords) == <<Len(coords), IF Len(coords) = 0 THEN 0 ELSE Len(coords[1])>>

(* ------------------- numpy RandomState (one stream) -------------------- *)
(* The stream is a full-period generator over RStates.                     *)
RngNext(s) == (s + 1) % RngMod

RECURSIVE RngSkip(_, _)
RngSkip(s, n) == IF n = 0 THEN s ELSE RngSkip(RngNext(s), n - 1)

(* RandomState.set_state: raises on anything that is not a snapshot. *)
SetStateRaises(snapshot) == snapshot \notin RStates

(* A setter that falls back to a fresh seed when set_state raises. *)
random_state_setter_Reseed(random, snapshot) ==
    IF SetStateRaises(snapshot) THEN 0 ELSE snapshot

(* The random_state setter: try set_state, swallow every exception. *)
random_state_setter(random, snapshot) ==
    IF SetStateRaises(snapshot) THEN random ELSE snapshot

(* ------------------------- the user's evaluator ------------------------ *)
(* log_prob_fn is the caller's function; three of them are exercised:      *)
(*   "blob"    returns (log-density, blob): (-sum(x^2), sum(x))            *)
(*   "nan"     returns the bare log-density -sum(x^2), but NaN where an    *)
(*             entry of x is the top coordinate                            *)
(*   "raise"   returns the bare log-density, but raises where an entry of  *)
(*             x is the top coordinate                                     *)
LogProbFns == {"blob", "nan", "raise"}

RECURSIVE SumSq(_)
SumSq(x) == IF x = <<>> THEN 0 ELSE Head(x) * Head(x) + SumSq(Tail(x))

RECURSIVE SumOf(_)
SumOf(x) == IF x = <<>> THEN 0 ELSE Head(x) + SumOf(Tail(x))

AtTop(x) == \E d \in 1 .. Len(x) : x[d] = NCoord - 1

(* _FunctionWrapper.__call__: call f, re-raise whatever it raises. *)
FunctionWrapperCall(fn, x) ==
    [raised |-> (fn = "raise" /\ AtTop(x)),
     lp |-> IF fn = "nan" /\ AtTop(x) THEN NaN ELSE 0 - SumSq(x),
     blob |-> IF fn = "blob" THEN <<SumOf(x)>> ELSE None]

CoordInf == 0 - 1      \* an infinite coordinate entry
CoordNaN == 0 - 2      \* a NaN coordinate entry

AnyEntry(p, v) == \E w \in 1 .. Len(p) : \E d \in 1 .. Len(p[w]) : p[w][d] = v

(* A guard that looks for NaN entries only. *)
ParamGuard_NaNOnly(p) == AnyEntry(p, CoordNaN)

(* np.any(np.isinf(p)) or np.any(np.isnan(p)): the coordinates are refused. *)
ParamGuard(p) == AnyEntry(p, CoordInf) \/ AnyEntry(p, CoordNaN)

(* Tasks handed to the map in the reverse of the walkers' order. *)
Tasks_Reversed(p) == [i \in 1 .. Len(p) |-> p[Len(p) + 1 - i]]

(* (p[i] for i in range(len(p))): task i is walker i's coordinate vector. *)
Tasks(p) == [i \in 1 .. Len(p) |-> p[i]]

(* The built-in map under list(): the evaluator is called for the tasks in *)
(* order and the first call that raises ends the mapping.                  *)
SerialMap(fn, tasks) ==
    LET Mapped(results, raising) ==
            [results |-> results,
             calls |-> IF raising = {} THEN Len(tasks)
                       ELSE CHOOSE i \in raising : \A j \in raising : i <= j]
        Called(results) ==
            Mapped(results, {i \in 1 .. Len(tasks) : results[i].raised})
    IN  Called([i \in 1 .. Len(tasks) |-> FunctionWrapperCall(fn, tasks[i])])

(* pool.map: `finished` lists the workers' completions in the order they   *)
(* finished; the list it returns holds task i's result at position i.      *)
PoolMap(finished, n) ==
    [i \in 1 .. n |->
        finished[CHOOSE k \in 1 .. Len(finished) : finished[k].task = i].result]

(* compute_log_prob from the mapped results on: unpack (log_prob, blob),   *)
(* guard the log-probabilities.  err is "" when it returns normally.       *)
Unpack(fn, results, calls) ==
    LET n == Len(results)
        log_prob == [w \in 1 .. n |-> results[w].lp]
        blob == IF fn = "blob" THEN [w \in 1 .. n |-> results[w].blob[1]]
                ELSE None
    IN  IF \E w \in 1 .. n : results[w].raised
        THEN [err |-> "EvaluatorFailure", log_prob |-> None, blobs |-> None,
              calls |-> calls]
        ELSE IF \E w \in 1 .. n : log_prob[w] = NaN
        THEN [err |-> "InvalidLogProbError", log_prob |-> None, blobs |-> None,
              calls |-> calls]
        ELSE [err |-> "", log_prob |-> log_prob, blobs |-> blob, calls |-> calls]

(* A compute_log_prob that maps NaN log-probabilities to a very low        *)
(* number instead of raising.                                              *)
compute_log_prob_NanToNum(fn, p) ==
    LET results == [w \in 1 .. Len(p) |-> FunctionWrapperCall(fn, p[w])]
    IN  IF \E w \in 1 .. Len(p) : results[w].raised
        THEN [err |-> "EvaluatorFailure", log_prob |-> None, blobs |-> None,
              calls |-> Len(p)]
        ELSE [err |-> "",
              log_prob |-> [w \in 1 .. Len(p) |->
                              IF results[w].lp = NaN THEN 0 - 100
                              ELSE results[w].lp],
              blobs |-> IF fn = "blob"
                        THEN [w \in 1 .. Len(p) |-> results[w].blob[1]]
                        ELSE None,
              calls |-> Len(p)]

(* compute_log_prob without a pool: guard the coordinates, map the         *)
(* evaluator over the walkers in order, unpack and guard the results.      *)
compute_log_prob(fn, p) ==
    LET Unpacked(m) == Unpack(fn, m.results, m.calls)
    IN  IF ParamGuard(p)
        THEN [err |-> "InvalidParameterError", log_prob |-> None, blobs |-> None,
              calls |-> 0]
        ELSE Unpacked(SerialMap(fn, Tasks(p)))

(* ------------------------------- moves --------------------------------- *)
(* The schedule holds two moves with equal weights.  Move 2 is tunable:    *)
(* its tune() switches its step parameter on the acceptance outcome.       *)
Moves == {1, 2}

(* A move drawn with np.random.choice: from the global generator. *)
ChooseMove_Global(random, glob) ==
    LET s == RngNext(glob)
    IN  [move |-> IF 2 * s < RngMod THEN 1 ELSE 2, random |-> random, glob |-> s]

(* self._random.choice(self._moves, p=self._weights): one draw of the      *)
(* sampler's own stream `random`; the global generator `glob` is left alone.*)
ChooseMove(random, glob) ==
    LET s == RngNext(random)
    IN  [move |-> IF 2 * s < RngMod THEN 1 ELSE 2, random |-> s, glob |-> glob]

(* Move.propose(model, state): walker w draws once from model.random,      *)
(* proposes a shifted position, and accepts it on the log-density ratio.   *)
propose(move, param, fn, state, random) ==
    LET n == Len(state.coords)
        Decided(draw, q, new, accepted) ==
            [err |-> new.err,
             calls |-> new.calls,
             random |-> RngSkip(random, n),
             accepted |-> accepted,
             state |-> State(
                 [w \in 1 .. n |-> IF accepted[w] THEN q[w] ELSE state.coords[w]],
                 [w \in 1 .. n |-> IF accepted[w] THEN new.log_prob[w]
                                    ELSE state.log_prob[w]],
                 IF state.blobs = None THEN None
                 ELSE [w \in 1 .. n |-> IF accepted[w] THEN new.blobs[w]
                                        ELSE state.blobs[w]],
                 state.random_state)]
        Evaluated(draw, q, new) ==
            Decided(draw, q, new,
                    [w \in 1 .. n |->
                        new.err = "" /\
                        new.log_prob[w] - state.log_prob[w] >= 0 - (draw[w] % 3)])
        Proposed(draw, q) == Evaluated(draw, q, compute_log_prob(fn, q))
        Drawn(draw) ==
            Proposed(draw,
                     [w \in 1 .. n |->
                        [d \in 1 .. Len(state.coords[w]) |->
                            (state.coords[w][d] + move + param + draw[w]) % NCoord]])
    IN  Drawn([w \in 1 .. n |-> RngSkip(random, w)])

(* Move.tune(state, accepted): a no-op for move 1; move 2 sets its step    *)
(* parameter to 1 when some walker accepted and to 0 otherwise.            *)
tune(move, param, accepted) ==
    IF move = 2
    THEN IF \E w \in 1 .. Len(accepted) : accepted[w] THEN 1 ELSE 0
    ELSE param

(* --------------------------- storage backend --------------------------- *)
(* chain holds the filled rows; allocated is len(self.chain) of the        *)
(* preallocated arrays (rows iteration+1 .. allocated are not yet written).*)
NewBackend ==
    [initialized |-> FALSE, shape |-> <<0, 0>>, iteration |-> 0,
     accepted |-> <<>>, chain |-> <<>>, allocated |-> 0,
     random_state |-> NoRState]

BackendReset(b, nwalkers, ndim) ==
    [initialized |-> TRUE, shape |-> <<nwalkers, ndim>>, iteration |-> 0,
     accepted |-> [w \in 1 .. nwalkers |-> 0], chain |-> <<>>, allocated |-> 0,
     random_state |-> NoRState]

BackendGrow(b, ngrow) ==
    [b EXCEPT !.allocated = IF b.iteration + ngrow > @ THEN b.iteration + ngrow
                            ELSE @]

BackendSaveStep(b, state, accepted) ==
    [b EXCEPT !.chain = Append(@, state),
              !.accepted = [w \in DOMAIN @ |-> @[w] + (IF accepted[w] THEN 1 ELSE 0)],
              !.random_state = state.random_state,
              !.iteration = @ + 1]

BackendGetLastSample(b) ==
    LET row == b.chain[b.iteration]
    IN  State(row.coords, row.log_prob, row.blobs, b.random_state)

(* ------------------------------- state --------------------------------- *)
VARIABLES
    ambient,     \* the state of numpy's global generator (np.random)
    log_prob_fn, \* the evaluator the samplers are built around
    kwargs,      \* the thin_by, thin and tune arguments the callers pass
    sampler,     \* the EnsembleSampler object
    backend,     \* the Backend object
    param,       \* the step parameter of the tunable move
    gen,         \* the frame of the generator sample() returned
    yielded,     \* the states the generator has handed to its consumer
    obs,         \* what the current sample() call has done so far
    op,          \* the last operation a caller performed, and how it ended
    nops,        \* the number of operations the callers have performed
    ref,         \* the first exhausted sample() call: its inputs and its yields
    call,        \* a compute_log_prob call made through a pool, and its workers
    other,       \* a second generator the caller holds, with the sampler it runs on
    pair         \* two more samplers of the same process, each over a backend of its own

svars == <<ambient, log_prob_fn, kwargs, sampler, backend, param, gen, yielded, obs, op,
           nops, ref, pair, other>>

pvars == <<log_prob_fn, kwargs, sampler, backend, param, gen, yielded, obs, op,
           nops, ref, call, other>>

vars == <<ambient, log_prob_fn, kwargs, sampler, backend, param, gen, yielded, obs, op,
          nops, ref, call, pair, other>>

NoSampler ==
    [alive |-> FALSE, nwalkers |-> 0, ndim |-> 0, random |-> 0,
     has_previous_state |-> FALSE, previous_state |-> NoneState]

NoGen ==
    [pc |-> "none", caller |-> "user", initial_state |-> NoneState,
     state |-> NoneState,
     iterations |-> 0, thin_by |-> 1, thin |-> None, store |-> FALSE,
     tune |-> FALSE, yield_step |-> 0, checkpoint_step |-> 0, i |-> 0, nyield |-> 0]

(* What the latest round did: the move it drew, the acceptance mask, the   *)
(* tune call it made and the steps it took, in order.                      *)
NoLast ==
    [move |-> 0, accepted |-> <<>>,
     tuned |-> [called |-> FALSE, move |-> 0, state |-> NoneState,
                accepted |-> <<>>],
     steps |-> <<>>]

(* op.name is the operation, op.err the kind of error it raised ("" for     *)
(* none); arg, before and after hold what the operation was given and the  *)
(* situation it was called in.                                             *)
Op(name, err) ==
    [name |-> name, err |-> err, arg |-> 0, before |-> 0, after |-> ""]

(* What a call has done so far.  op is the call itself; alone holds while  *)
(* no other call has changed the stream or the backend the call works on.  *)
NoObs ==
    [rounds |-> 0, saves |-> 0, grows |-> 0, grown |-> 0, evals |-> 0,
     random_pre |-> NoRState, random0 |-> NoRState, pre |-> NewBackend,
     prior |-> NoneState, tunes |-> 0, last |-> NoLast,
     op |-> Op("construct", ""), alone |-> TRUE]

(* What the sequence a sample() call yields is a function of, with the     *)
(* evaluator and the moves fixed: the initial state, the stream's snapshot *)
(* when the call starts, iterations and thin_by.                           *)
RunKey(g, o) ==
    [initial_state |-> g.initial_state, random |-> o.random_pre,
     iterations |-> g.iterations, thin_by |-> g.thin_by, thin |-> g.thin,
     tune |-> g.tune]

NoRef == [set |-> FALSE, at |-> 0, key |-> RunKey(NoGen, NoObs), seq |-> <<>>]

(* The first call that is exhausted, with no other call having changed the *)
(* stream or the backend under it, is kept for comparison.                 *)
Remember(g, o, seq, n) ==
    IF ref.set \/ g.pc # "done" \/ g.yield_step = 0 \/ ~o.alone THEN ref
    ELSE [set |-> TRUE, at |-> n, key |-> RunKey(g, o), seq |-> seq]

Samplers == {1, 2}

NoPair ==
    [log |-> <<>>,
     s |-> [id \in Samplers |->
              [pc |-> "none", random |-> NoRState, state |-> NoneState,
               start |-> [state |-> NoneState, random |-> NoRState,
                          glob |-> NoRState],
               yields |-> <<>>]]]

(* No second generator is held. *)
NoOther ==
    [live |-> FALSE, shared |-> TRUE, sampler |-> NoSampler, param |-> 0,
     gen |-> NoGen, yielded |-> <<>>, obs |-> NoObs]

NoCall ==
    [pc |-> "idle", p |-> <<>>, pending |-> {}, finished |-> <<>>,
     out |-> [err |-> "", log_prob |-> None, blobs |-> None, calls |-> 0]]

(* A caller may start one more operation. *)
MayCall == nops < MaxOps

(* No call on the sampler is in progress and the caller holds no generator *)
(* it can still pull: a sample() generator is over when it is exhausted,   *)
(* has raised or was dropped; a run_mcmc call is over when it has returned *)
(* or raised (the end of its loop and its return are one step).            *)
Idle ==
    \/ gen.pc \in {"none", "failed", "returned", "abandoned"}
    \/ gen.pc = "done" /\ gen.caller = "user"

(* The caller holds a generator of sample() between two pulls. *)
Waiting == gen.caller = "user" /\ gen.pc \in {"created", "suspended"}

(* Control is with the caller, who may call the sampler. *)
AtCaller == Idle \/ Waiting

(* What a call that makes a generator or a sampler counts for in nops: two *)
(* operations when the caller holds a generator beside it, which bounds    *)
(* the behaviours with two generators by fewer calls around them.          *)
OpCost == IF Waiting THEN 2 ELSE 1

(* The generator the caller is at, as the one held aside. *)
Parked(shared) ==
    [live |-> TRUE, shared |-> shared, sampler |-> sampler, param |-> param,
     gen |-> gen, yielded |-> yielded, obs |-> obs]

(* The held generator after a step that leaves the stream of the current   *)
(* sampler at `random` and the backend as `b`: it is no longer alone when   *)
(* the step changed the stream it draws from or the backend it writes.     *)
Touched(o, random, b) ==
    IF o.live /\ ((o.shared /\ random # sampler.random) \/ b # backend)
    THEN [o EXCEPT !.obs.alone = FALSE]
    ELSE o

(* Code elsewhere in the process draws from numpy's global generator,    *)
(* between two calls into the sampler.                                     *)
AmbientDraw ==
    /\ MayCall
    /\ AtCaller
    /\ ambient' = RngNext(ambient)
    /\ nops' = nops + 1
    /\ UNCHANGED <<log_prob_fn, kwargs, sampler, backend, param, gen, yielded, obs, op, ref, call, pair, other>>

(* A constructor that resets the backend it is given whatever it holds. *)
InitSampler_AlwaysReset(b, nwalkers, ndim, glob) ==
    [err |-> "",
     backend |-> BackendReset(b, nwalkers, ndim),
     sampler |-> [alive |-> TRUE, nwalkers |-> nwalkers, ndim |-> ndim,
                  random |-> glob,
                  has_previous_state |-> TRUE,
                  previous_state |-> NoneState]]

(* ---------------------------- construction ----------------------------- *)
(* EnsembleSampler.__init__ over `b`, a Backend().  With a backend that is *)
(* not initialized the sampler resets it and seeds its stream from the     *)
(* global generator; with an initialized one it checks the shape, takes    *)
(* the backend's snapshot and, when steps are stored, its last sample.     *)
(* _previous_state is assigned on two of the three paths only.             *)
InitSampler(b, nwalkers, ndim, glob) ==
    IF ~b.initialized
    THEN [err |-> "",
          backend |-> BackendReset(b, nwalkers, ndim),
          sampler |-> [alive |-> TRUE, nwalkers |-> nwalkers, ndim |-> ndim,
                       random |-> glob,
                       has_previous_state |-> TRUE,
                       previous_state |-> NoneState]]
    ELSE IF b.shape # <<nwalkers, ndim>>
    THEN [err |-> "ShapeError", backend |-> b, sampler |-> NoSampler]
    ELSE [err |-> "",
          backend |-> b,
          sampler |-> [alive |-> TRUE, nwalkers |-> nwalkers, ndim |-> ndim,
                       random |-> IF b.random_state = NoRState THEN glob
                                  ELSE b.random_state,
                       has_previous_state |-> (b.iteration > 0),
                       previous_state |-> IF b.iteration > 0
                                          THEN BackendGetLastSample(b)
                                          ELSE NoneState]]

(* A thin_by argument is a number, whole or not: it is kept as its double, *)
(* so that Half * n stands for the integer n and Half * n + 1 for n + 0.5. *)
Half == 2

(* int(x): the fractional part is dropped, towards zero. *)
IntOf(x) == IF x >= 0 THEN x \div Half ELSE 0 - ((0 - x) \div Half)

IsPositiveInteger(x) == x > 0 /\ x % Half = 0

ThinByArgs == (0 - Half) .. (Half * MaxThin)

(* The thin_by and tune arguments of one behaviour's callers, who leave    *)
(* the deprecated thin at its default, None.                               *)
Settings ==
    {kw \in [thin_by : ThinByArgs, thin : {None}, tune : BOOLEAN] :
        ~IsPositiveInteger(kw.thin_by) => ~kw.tune}

(* The state after EnsembleSampler(nwalkers, ndim, log_prob_fn): a sampler  *)
(* over a Backend() of its own, its stream seeded from the global one.     *)
Constructed ==
    /\ ambient = 0
    /\ log_prob_fn \in LogProbFns
    /\ sampler = InitSampler(NewBackend, NWalkers, NDim, ambient).sampler
    /\ backend = InitSampler(NewBackend, NWalkers, NDim, ambient).backend
    /\ param = 0
    /\ gen = NoGen
    /\ yielded = <<>>
    /\ obs = NoObs
    /\ op = Op("construct", "")
    /\ nops = 0
    /\ ref = NoRef
    /\ call = NoCall
    /\ pair = NoPair
    /\ other = NoOther

Init == Constructed /\ kwargs \in Settings

(* A caller builds a sampler, over a new Backend() or over the backend an  *)
(* earlier sampler wrote.  With a new Backend() the caller drops the       *)
(* earlier sampler and its generators; over the same backend the earlier   *)
(* sampler and a generator the caller holds on it are kept aside.          *)
Construct ==
    \E reuse \in BOOLEAN, ndim \in {NDim, NDim + 1} :
        /\ nops + (IF reuse THEN OpCost ELSE 1) <= MaxOps
        /\ Idle \/ (Waiting /\ (~reuse \/ ~other.live))
        /\ (~reuse => ndim = NDim)
        /\ nops' = nops + (IF reuse THEN OpCost ELSE 1)
        /\ LET r == InitSampler(IF reuse THEN backend ELSE NewBackend,
                                NWalkers, ndim, ambient)
           IN  /\ sampler' = r.sampler
               /\ backend' = r.backend
               /\ op' = [Op("construct", r.err) EXCEPT
                           !.arg = IF reuse THEN 1 ELSE 0, !.before = ndim]
               /\ other' = IF ~reuse THEN NoOther
                            ELSE IF Waiting THEN Parked(FALSE)
                            ELSE IF other.live /\ other.shared
                            THEN Touched([other EXCEPT !.shared = FALSE,
                                                       !.sampler = sampler,
                                                       !.param = param],
                                         sampler.random, r.backend)
                            ELSE Touched(other, sampler.random, r.backend)
        /\ gen' = NoGen
        /\ yielded' = <<>>
        /\ obs' = [NoObs EXCEPT !.pre = IF reuse THEN backend ELSE NewBackend,
                                !.op = op']
        /\ param' = 0
        /\ UNCHANGED <<ambient, log_prob_fn, kwargs, ref, call, pair>>

(* EnsembleSampler.reset: the backend is reset; a generator the caller     *)
(* holds stays as it is and goes on over the reset backend.                *)
Reset ==
    /\ MayCall
    /\ sampler.alive
    /\ AtCaller
    /\ nops' = nops + 1
    /\ backend' = BackendReset(backend, sampler.nwalkers, sampler.ndim)
    /\ op' = Op("reset", "")
    /\ gen' = IF Waiting THEN gen ELSE NoGen
    /\ obs' = IF Waiting THEN [obs EXCEPT !.alone = @ /\ backend' = backend]
              ELSE [NoObs EXCEPT !.op = op']
    /\ other' = Touched(other, sampler.random, backend')
    /\ UNCHANGED <<ambient, log_prob_fn, kwargs, sampler, param, yielded, ref, call, pair>>

(* The random_state property is assigned by a caller; a generator the      *)
(* caller holds draws from the stream as it is assigned.                   *)
SetRandomState ==
    \E snapshot \in RStates \cup {NoRState, BadRState} :
        /\ MayCall
        /\ sampler.alive
        /\ AtCaller
        /\ nops' = nops + 1
        /\ sampler' = [sampler EXCEPT
                         !.random = random_state_setter(@, snapshot)]
        /\ op' = [Op("set_random_state", "") EXCEPT
                    !.arg = snapshot, !.before = sampler.random]
        /\ gen' = IF Waiting THEN gen ELSE NoGen
        /\ obs' = IF Waiting
                  THEN [obs EXCEPT !.alone = @ /\ sampler'.random = sampler.random]
                  ELSE [NoObs EXCEPT !.op = op']
        /\ other' = Touched(other, sampler'.random, backend)
        /\ UNCHANGED <<ambient, log_prob_fn, kwargs, backend, param, yielded, ref, call, pair>>

(* The acceptance_fraction property: accepted / float(iteration), one      *)
(* quotient per walker, kept as numerator and denominator (0/0 is NaN).    *)
acceptance_fraction_OffByOne(b) ==
    [w \in DOMAIN b.accepted |-> [num |-> b.accepted[w], den |-> b.iteration - 1]]

acceptance_fraction(b) ==
    [w \in DOMAIN b.accepted |-> [num |-> b.accepted[w], den |-> b.iteration]]

(* ------------------------------ sample() ------------------------------- *)
(* The initial states callers pass: raw coordinate arrays (no log_prob, no *)
(* snapshot), one of them at the top coordinate and one of a wrong shape,  *)
(* and State objects obtained from the sampler.                            *)
RawArray(coords) == State(coords, None, None, NoRState)

Array0 == [w \in Walkers |-> [d \in 1 .. NDim |-> 0]]
ArrayTop == [w \in Walkers |-> [d \in 1 .. NDim |-> IF w = 1 THEN NCoord - 1 ELSE 0]]
ArrayWrong == [w \in 1 .. (NWalkers + 1) |-> [d \in 1 .. NDim |-> 0]]

(* A State a caller assembled for a larger ensemble, snapshot included. *)
StateWrong == State(ArrayWrong, None, None, RngMod - 1)

InitialStates ==
    {RawArray(Array0), RawArray(ArrayTop), RawArray(ArrayWrong), StateWrong}
    \cup (IF yielded # <<>> THEN {yielded[Len(yielded)]} ELSE {})

NewGen(caller, initial_state, iterations, store, kw) ==
    [pc |-> "created", caller |-> caller, initial_state |-> initial_state,
     state |-> NoneState, iterations |-> iterations, thin_by |-> kw.thin_by,
     thin |-> kw.thin, store |-> store, tune |-> kw.tune, yield_step |-> 0,
     checkpoint_step |-> 0, i |-> 0, nyield |-> 0]

(* The frame of a new generator holds the arguments as they were passed;   *)
(* thin_by becomes int(thin_by) when the body reaches its thinning check.  *)
(* sample(initial_state, iterations=.., store=.., **kwargs) is called: a    *)
(* generator object is made, none of its body runs.                        *)
SampleCall ==
    \E initial_state \in InitialStates, iterations \in 0 .. MaxIterations,
       store \in BOOLEAN :
        /\ nops + OpCost <= MaxOps
        /\ (initial_state \in {RawArray(ArrayWrong), StateWrong} => iterations = 1)
        /\ sampler.alive
        /\ Idle \/ (Waiting /\ ~other.live)
        /\ nops' = nops + OpCost
        /\ gen' = NewGen("user", initial_state, iterations, store, kwargs)
        /\ yielded' = <<>>
        /\ op' = Op("sample", "")
        /\ obs' = [NoObs EXCEPT !.pre = backend, !.random_pre = sampler.random,
                                !.op = op']
        /\ other' = IF Waiting THEN Parked(TRUE) ELSE other
        /\ UNCHANGED <<ambient, log_prob_fn, kwargs, sampler, backend, param, ref, call, pair>>

(* A backend grown by one row per round, whatever the checkpoint step. *)
NSaves_EveryRound(iterations, checkpoint_step) == iterations

(* `nsaves = iterations // checkpoint_step` on the deprecated thin path. *)
NSaves(iterations, checkpoint_step) == iterations \div checkpoint_step

(* The body of sample() from its first line to the entry of the loop:      *)
(* shape check, the stream set from the state's snapshot, the initial      *)
(* log-probabilities, the thinning check of the argument in use (thin when *)
(* it is given, thin_by otherwise), the backend grown.                     *)
SamplePrologue(g, smp, b, fn) ==
    LET state0 == g.initial_state
        thin_by == IntOf(g.thin_by)
        thin == IF g.thin = None THEN 0 ELSE IntOf(g.thin[1])
        nsaves == NSaves(g.iterations, thin)
        fail(kind, rnd, calls) ==
            [err |-> kind, random |-> rnd, state |-> state0, backend |-> b,
             calls |-> calls, grows |-> 0, grown |-> 0,
             yield_step |-> 0, checkpoint_step |-> 0,
             thin |-> IF kind = "InvalidThinningError" /\ g.thin # None
                      THEN <<thin>> ELSE g.thin,
             thin_by |-> IF kind = "InvalidThinningError" /\ g.thin = None
                         THEN thin_by ELSE g.thin_by]
        Checked(random, lp, state) ==
            IF lp.err # ""
            THEN fail(lp.err, random, lp.calls)
            ELSE IF Len(state.log_prob) # smp.nwalkers
            THEN fail("ShapeError", random, lp.calls)
            ELSE IF \E w \in 1 .. Len(state.log_prob) : state.log_prob[w] = NaN
            THEN fail("InvalidLogProbError", random, lp.calls)
            ELSE IF g.thin # None /\ thin <= 0
            THEN fail("InvalidThinningError", random, lp.calls)
            ELSE IF g.thin # None
            THEN [err |-> "", random |-> random, state |-> state,
                  thin |-> <<thin>>, thin_by |-> g.thin_by,
                  yield_step |-> 1, checkpoint_step |-> thin,
                  backend |-> IF g.store THEN BackendGrow(b, nsaves) ELSE b,
                  calls |-> lp.calls,
                  grows |-> IF g.store THEN 1 ELSE 0,
                  grown |-> IF g.store THEN nsaves ELSE 0]
            ELSE IF thin_by <= 0
            THEN fail("InvalidThinningError", random, lp.calls)
            ELSE [err |-> "", random |-> random, state |-> state,
                  thin |-> g.thin, thin_by |-> thin_by,
                  yield_step |-> thin_by, checkpoint_step |-> thin_by,
                  backend |-> IF g.store THEN BackendGrow(b, g.iterations) ELSE b,
                  calls |-> lp.calls,
                  grows |-> IF g.store THEN 1 ELSE 0,
                  grown |-> IF g.store THEN g.iterations ELSE 0]
        Evaluated(random, lp) ==
            Checked(random, lp,
                    State(state0.coords, lp.log_prob, lp.blobs, state0.random_state))
        Seeded(random) ==
            Evaluated(random,
                      IF state0.log_prob = None
                      THEN compute_log_prob(fn, state0.coords)
                      ELSE [err |-> "", log_prob |-> state0.log_prob,
                            blobs |-> state0.blobs, calls |-> 0])
    IN  IF Shape(state0.coords) # <<smp.nwalkers, smp.ndim>>
        THEN fail("ShapeError", smp.random, 0)
        ELSE Seeded(random_state_setter(smp.random, state0.random_state))

(* `results` of run_mcmc: the last state its loop received, or None. *)
Results == IF yielded = <<>> THEN NoneState ELSE yielded[Len(yielded)]

(* When the loop of run_mcmc is exhausted the call goes on, in the same    *)
(* step, to remember `results` as _previous_state and to return it.  A     *)
(* generator of a user is left exhausted.                                  *)
RunMcmcReturn(smp, g, results) ==
    IF g.caller = "run_mcmc" /\ g.pc = "done"
    THEN [sampler |-> [smp EXCEPT !.has_previous_state = TRUE,
                                  !.previous_state = results],
          gen |-> [g EXCEPT !.pc = "returned"]]
    ELSE [sampler |-> smp, gen |-> g]

(* The consumer's first pull runs the prologue. *)
Start ==
    /\ gen.pc = "created"
    /\ \E r \in {SamplePrologue(gen, sampler, backend, log_prob_fn)} :
           /\ backend' = r.backend
           /\ op' = [obs.op EXCEPT !.err = r.err]
           /\ obs' = [obs EXCEPT !.evals = r.calls, !.grows = r.grows,
                                 !.grown = r.grown, !.random0 = r.random,
                                 !.op = op']
           /\ other' = Touched(other, r.random, r.backend)
           /\ \E g \in {[gen EXCEPT
                           !.pc = IF r.err # "" THEN "failed"
                                  ELSE IF gen.iterations = 0 THEN "done"
                                  ELSE "running",
                           !.state = r.state,
                           !.thin_by = r.thin_by,
                           !.thin = r.thin,
                           !.yield_step = r.yield_step,
                           !.checkpoint_step = r.checkpoint_step]} :
                  \E ret \in {RunMcmcReturn([sampler EXCEPT !.random = r.random],
                                            g, Results)} :
                      /\ sampler' = ret.sampler
                      /\ gen' = ret.gen
                      /\ ref' = Remember(g, obs', yielded, nops)
    /\ UNCHANGED <<ambient, log_prob_fn, kwargs, param, yielded, nops, call, pair>>

(* Variants of the checkpoint test: counting from the round's start, not   *)
(* thinning at all, and not honouring store.                               *)
Checkpoint_OffByOne(store, i, checkpoint_step) ==
    store /\ i % checkpoint_step = 0

Checkpoint_EveryRound(store, i, checkpoint_step) == store

Checkpoint_IgnoreStore(store, i, checkpoint_step) ==
    (i + 1) % checkpoint_step = 0

(* `store and (i + 1) % checkpoint_step == 0` *)
Checkpoint(store, i, checkpoint_step) ==
    store /\ (i + 1) % checkpoint_step = 0

(* A round that leaves the state's snapshot as the move returned it. *)
RecordSnapshot_Skip(state, random) == state

(* state.random_state = self.random_state *)
RecordSnapshot(state, random) == [state EXCEPT !.random_state = random]

NoTune ==
    [called |-> FALSE, move |-> 0, state |-> NoneState, accepted |-> <<>>]

(* A round that calls tune whatever the flag is. *)
TuneStep_Always(flag, move, prm, state, accepted) ==
    [param |-> tune(move, prm, accepted),
     call |-> [called |-> TRUE, move |-> move, state |-> state,
               accepted |-> accepted]]

(* `if tune: move.tune(state, accepted)`: the move's parameter afterwards  *)
(* and the call that was made, if any.                                     *)
TuneStep(flag, move, prm, state, accepted) ==
    IF flag
    THEN [param |-> tune(move, prm, accepted),
          call |-> [called |-> TRUE, move |-> move, state |-> state,
                    accepted |-> accepted]]
    ELSE [param |-> prm, call |-> NoTune]

(* One pass of the inner loop body: choose a move, propose, record the     *)
(* stream's snapshot in the new state, tune, save on a checkpoint round.   *)
SampleRound(g, random, glob, prm, b, fn) ==
    LET Saved(c, p, state, t, save) ==
            IF p.err # ""
            THEN [err |-> p.err, random |-> p.random, glob |-> c.glob,
                  state |-> g.state, param |-> prm, backend |-> b,
                  saved |-> FALSE, tuned |-> NoTune, calls |-> p.calls,
                  move |-> c.move, accepted |-> p.accepted,
                  steps |-> <<"choose", "propose">>]
            ELSE [err |-> "", random |-> p.random, glob |-> c.glob,
                  state |-> state,
                  param |-> t.param,
                  backend |-> IF save THEN BackendSaveStep(b, state, p.accepted)
                              ELSE b,
                  saved |-> save, tuned |-> t.call, calls |-> p.calls,
                  move |-> c.move, accepted |-> p.accepted,
                  steps |-> <<"choose", "propose", "record">>
                            \o (IF t.call.called THEN <<"tune">> ELSE <<>>)
                            \o (IF save THEN <<"save">> ELSE <<>>)]
        Recorded(c, p, state) ==
            Saved(c, p, state, TuneStep(g.tune, c.move, prm, state, p.accepted),
                  Checkpoint(g.store, g.i, g.checkpoint_step))
        Proposed(c, p) == Recorded(c, p, RecordSnapshot(p.state, p.random))
        Chosen(c) ==
            Proposed(c, propose(c.move, IF c.move = 2 THEN prm ELSE 0, fn, g.state,
                                c.random))
    IN  Chosen(ChooseMove(random, glob))

(* The frame of a generator that is in its loop at `state`, one round per  *)
(* yield, storing nothing and tuning nothing.                              *)
RoundFrame(state, thin_by) ==
    [NoGen EXCEPT !.pc = "running", !.state = state, !.thin_by = thin_by,
                  !.yield_step = thin_by, !.checkpoint_step = thin_by]

(* The loop of sample() run on its own from `state` with the stream at     *)
(* `random`: k rounds in a row, then the states of n blocks of thin_by     *)
(* rounds.  A round in which the evaluator fails ends the run.             *)
RECURSIVE RunRounds(_, _, _, _, _, _)
RunRounds(fn, state, random, glob, prm, k) ==
    IF k = 0
    THEN [ok |-> TRUE, state |-> state, random |-> random, glob |-> glob]
    ELSE LET After(r) ==
                 IF r.err # ""
                 THEN [ok |-> FALSE, state |-> state, random |-> r.random,
                       glob |-> r.glob]
                 ELSE RunRounds(fn, r.state, r.random, r.glob, prm, k - 1)
         IN  After(SampleRound(RoundFrame(state, 1), random, glob, prm, NewBackend,
                               fn))

RECURSIVE SoloYields(_, _, _, _, _, _, _)
SoloYields(fn, state, random, glob, prm, n, thin_by) ==
    IF n = 0 THEN <<>>
    ELSE LET After(r) ==
                 IF ~r.ok THEN <<>>
                 ELSE <<r.state>> \o SoloYields(fn, r.state, r.random, r.glob, prm,
                                                n - 1, thin_by)
         IN  After(RunRounds(fn, state, random, glob, prm, thin_by))

(* Inside a pull: the next proposal round of the current block. *)
Round ==
    /\ gen.pc = "running"
    /\ gen.i < (gen.nyield + 1) * gen.yield_step
    /\ \E r \in {SampleRound(gen, sampler.random, ambient, param, backend,
                            log_prob_fn)} :
           /\ sampler' = [sampler EXCEPT !.random = r.random]
           /\ ambient' = r.glob
           /\ param' = r.param
           /\ backend' = r.backend
           /\ gen' = IF r.err # "" THEN [gen EXCEPT !.pc = "failed"]
                     ELSE [gen EXCEPT !.state = r.state, !.i = @ + 1]
           /\ op' = [obs.op EXCEPT !.err = r.err]
           /\ obs' = [obs EXCEPT !.rounds = @ + 1,
                                 !.saves = @ + (IF r.saved THEN 1 ELSE 0),
                                 !.evals = @ + r.calls,
                                 !.tunes = @ + (IF r.tuned.called THEN 1 ELSE 0),
                                 !.last = [move |-> r.move, accepted |-> r.accepted,
                                           tuned |-> r.tuned, steps |-> r.steps],
                                 !.op = op']
           /\ other' = Touched(other, r.random, r.backend)
    /\ UNCHANGED <<log_prob_fn, kwargs, yielded, nops, ref, call, pair>>

(* The block is complete: `yield state` hands the state to the consumer    *)
(* and suspends the generator.                                             *)
Yield ==
    /\ gen.pc = "running"
    /\ gen.i = (gen.nyield + 1) * gen.yield_step
    /\ gen' = [gen EXCEPT !.pc = "suspended", !.nyield = @ + 1]
    /\ yielded' = Append(yielded, gen.state)
    /\ UNCHANGED <<ambient, log_prob_fn, kwargs, sampler, backend, param, obs, op, nops, ref, call, pair, other>>

(* The consumer pulls again: the outer loop goes on or is exhausted. *)
Resume ==
    /\ gen.pc = "suspended"
    /\ \E g \in {[gen EXCEPT !.pc = IF gen.nyield < gen.iterations
                                     THEN "running" ELSE "done"]} :
           \E ret \in {RunMcmcReturn(sampler, g, Results)} :
               /\ sampler' = ret.sampler
               /\ gen' = ret.gen
               /\ ref' = Remember(g, obs, yielded, nops)
    /\ op' = obs.op
    /\ UNCHANGED <<ambient, log_prob_fn, kwargs, backend, param, yielded, obs,
                   nops, call, pair, other>>

(* The consumer of sample() stops pulling and drops the generator. *)
Abandon ==
    /\ gen.pc \in {"created", "suspended"}
    /\ gen.caller = "user"
    /\ gen' = [gen EXCEPT !.pc = "abandoned"]
    /\ UNCHANGED <<ambient, log_prob_fn, kwargs, sampler, backend, param, yielded, obs, op,
                   nops, ref, call, pair, other>>

(* The caller turns to the generator held aside, or to the sampler held    *)
(* aside; the generator the caller was at is held in its place while it    *)
(* can still be pulled or runs on a sampler of its own.                    *)
Switch ==
    /\ other.live
    /\ AtCaller
    /\ gen' = other.gen
    /\ yielded' = other.yielded
    /\ obs' = other.obs
    /\ op' = other.obs.op
    /\ sampler' = IF other.shared THEN sampler ELSE other.sampler
    /\ param' = IF other.shared THEN param ELSE other.param
    /\ other' = IF other.shared
                THEN IF Waiting THEN Parked(TRUE) ELSE NoOther
                ELSE IF sampler.alive THEN Parked(FALSE) ELSE NoOther
    /\ UNCHANGED <<ambient, log_prob_fn, kwargs, backend, nops, ref, call, pair>>

(* ------------------------------ run_mcmc ------------------------------- *)
(* run_mcmc(initial_state, nsteps, **kwargs) up to the call of sample():   *)
(* with initial_state None it reads self._previous_state.  The callers of  *)
(* run_mcmc leave store at its default, True.                              *)
RunMcmcEntry(smp, resume, initial_state) ==
    IF ~resume
    THEN [err |-> "", initial_state |-> initial_state]
    ELSE IF ~smp.has_previous_state
    THEN [err |-> "AttributeError", initial_state |-> NoneState]
    ELSE IF smp.previous_state = NoneState
    THEN [err |-> "MissingStateError", initial_state |-> NoneState]
    ELSE [err |-> "", initial_state |-> smp.previous_state]

RunMcmcCall ==
    \E resume \in BOOLEAN, nsteps \in 0 .. MaxIterations :
        /\ nops + OpCost <= MaxOps
        /\ sampler.alive
        /\ Idle \/ (Waiting /\ ~other.live)
        /\ nops' = nops + OpCost
        /\ other' = IF Waiting THEN Parked(TRUE) ELSE other
        /\ \E r \in {RunMcmcEntry(sampler, resume, RawArray(Array0))} :
               /\ gen' = IF r.err # "" THEN [NoGen EXCEPT !.pc = "failed",
                                                          !.caller = "run_mcmc"]
                         ELSE NewGen("run_mcmc", r.initial_state, nsteps, TRUE,
                                     kwargs)
               /\ op' = [Op("run_mcmc", r.err) EXCEPT
                           !.arg = IF resume THEN 1 ELSE 0,
                           !.before = IF ~sampler.has_previous_state THEN 0
                                      ELSE IF sampler.previous_state = NoneState
                                      THEN 1 ELSE 2,
                           !.after = IF gen.pc = "returned" THEN "run_mcmc"
                                     ELSE IF gen.pc = "failed"
                                             /\ gen.caller = "run_mcmc"
                                             /\ obs.saves >= 1
                                     THEN "failed_run_mcmc"
                                     ELSE IF op.name = "construct" /\ op.arg = 1
                                             /\ op.err = ""
                                     THEN "construct" ELSE ""]
        /\ yielded' = <<>>
        /\ obs' = [NoObs EXCEPT !.pre = backend, !.random_pre = sampler.random,
                                !.prior = Results, !.op = op']
        /\ UNCHANGED <<ambient, log_prob_fn, kwargs, sampler, backend, param, ref, call, pair>>

Next ==
    \/ AmbientDraw
    \/ Construct
    \/ Reset
    \/ SetRandomState
    \/ SampleCall
    \/ Start
    \/ Round
    \/ Yield
    \/ Resume
    \/ Abandon
    \/ Switch
    \/ RunMcmcCall

Spec == Init /\ [][Next]_vars

(* ---------------------- the deprecated thin argument ------------------- *)
(* Callers that pass thin = t, whole or not, next to a thin_by of 1 or of  *)
(* MaxThin; thin_by is then neither converted nor checked.  The callers of *)
(* the other behaviours of this specification leave thin at None.          *)
ThinArgs == 0 .. (Half * MaxThin)

ThinSettings ==
    [thin_by : {Half, Half * MaxThin},
     thin : {None} \cup {<<t>> : t \in ThinArgs},
     tune : {FALSE}]

InitThin == Constructed /\ kwargs \in ThinSettings

SpecThin == InitThin /\ [][Next]_vars

(* ----------------- compute_log_prob through a worker pool -------------- *)
(* The coordinate arrays a caller hands to compute_log_prob. *)
CoordArrays == [Walkers -> [1 .. NDim -> Coord \cup {CoordInf, CoordNaN}]]

(* compute_log_prob(p) on a sampler built with pool=...: the coordinates   *)
(* are guarded, then one task per walker is handed to pool.map.            *)
ComputeLogProbCall ==
    \E p \in CoordArrays :
        /\ call.pc = "idle"
        /\ sampler.alive
        /\ call' = IF ParamGuard(p)
                   THEN [NoCall EXCEPT !.pc = "raised", !.p = p,
                                       !.out.err = "InvalidParameterError"]
                   ELSE [NoCall EXCEPT !.pc = "mapping", !.p = p,
                                       !.pending = DOMAIN Tasks(p)]
        /\ UNCHANGED svars

(* Some worker of the pool finishes the task it holds. *)
WorkerFinish ==
    \E i \in call.pending :
        /\ call.pc = "mapping"
        /\ call' = [call EXCEPT
                      !.pending = @ \ {i},
                      !.finished = Append(@,
                          [task |-> i,
                           result |-> FunctionWrapperCall(log_prob_fn,
                                                          Tasks(call.p)[i])])]
        /\ UNCHANGED svars

(* All tasks are done: pool.map returns and compute_log_prob goes on. *)
MapReturn ==
    /\ call.pc = "mapping"
    /\ call.pending = {}
    /\ \E out \in {Unpack(log_prob_fn, PoolMap(call.finished, Len(call.p)),
                              Len(call.finished))} :
           call' = [call EXCEPT !.pc = IF out.err = "" THEN "returned" ELSE "raised",
                                !.out = out]
    /\ UNCHANGED svars

InitEval == Init /\ kwargs = [thin_by |-> Half, thin |-> None, tune |-> FALSE]

NextEval ==
    \/ ComputeLogProbCall
    \/ WorkerFinish
    \/ MapReturn

SpecEval == InitEval /\ [][NextEval]_vars

(* ------------------- two samplers in the same process ------------------ *)
(* Each sampler is an EnsembleSampler over a Backend() of its own, with    *)
(* the default arguments of sample() but store=False and thin_by=1; their  *)
(* rounds interleave as the consumers of the two generators pull.          *)
PairConstruct ==
    \E id \in Samplers :
        /\ pair.s[id].pc = "none"
        /\ pair' = [pair EXCEPT
                      !.s[id].pc = "built",
                      !.s[id].random =
                          InitSampler(NewBackend, NWalkers, NDim, ambient).sampler.random]
        /\ UNCHANGED <<ambient, pvars>>

PairSetRandomState ==
    \E id \in Samplers, snapshot \in RStates :
        /\ pair.s[id].pc = "built"
        /\ pair' = [pair EXCEPT
                      !.s[id].pc = "seeded",
                      !.s[id].random = random_state_setter(@, snapshot)]
        /\ UNCHANGED <<ambient, pvars>>

(* The first pull of sample(initial_state, iterations=MaxIterations). *)
PairStart ==
    \E id \in Samplers, coords \in {Array0, ArrayTop} :
        /\ pair.s[id].pc \in {"built", "seeded"}
        /\ LET smp == [NoSampler EXCEPT !.alive = TRUE, !.nwalkers = NWalkers,
                                        !.ndim = NDim,
                                        !.random = pair.s[id].random]
               g == NewGen("user", RawArray(coords), MaxIterations, FALSE,
                           [thin_by |-> Half, thin |-> None, tune |-> FALSE])
           IN  \E r \in {SamplePrologue(g, smp,
                                          BackendReset(NewBackend, NWalkers, NDim),
                                          log_prob_fn)} :
               pair' = [pair EXCEPT
                          !.s[id].pc = IF r.err = "" THEN "running" ELSE "refused",
                          !.s[id].random = r.random,
                          !.s[id].state = r.state,
                          !.s[id].start = [state |-> r.state, random |-> r.random,
                                           glob |-> ambient]]
        /\ UNCHANGED <<ambient, pvars>>

(* A pull on one of the two generators: one round, one yield. *)
PairRound ==
    \E id \in Samplers :
        /\ pair.s[id].pc = "running"
        /\ Len(pair.s[id].yields) < MaxIterations
        /\ \E r \in {SampleRound(RoundFrame(pair.s[id].state, 1), pair.s[id].random,
                                   ambient, 0,
                                   BackendReset(NewBackend, NWalkers, NDim),
                                   log_prob_fn)} :
               /\ ambient' = r.glob
               /\ pair' = [pair EXCEPT
                             !.log = Append(@, id),
                             !.s[id].pc = IF r.err = "" THEN "running" ELSE "failed",
                             !.s[id].random = r.random,
                             !.s[id].state = r.state,
                             !.s[id].yields = IF r.err = "" THEN Append(@, r.state)
                                              ELSE @]
        /\ UNCHANGED pvars

InitPair == Init /\ kwargs = [thin_by |-> Half, thin |-> None, tune |-> FALSE]

NextPair ==
    \/ PairConstruct
    \/ PairSetRandomState
    \/ PairStart
    \/ PairRound

SpecPair == InitPair /\ [][NextPair]_vars

(* ======================= properties of the sampler ===================== *)
(* The loop of the current sample() call has been entered. *)
InLoop == gen.yield_step > 0

(* The current sample() call was consumed to exhaustion. *)
Exhausted == InLoop /\ gen.pc \in {"done", "returned"}

(* C1: with thin_by = k >= 1 and iterations = n >= 0, a sample() call      *)
(* consumed to exhaustion has run exactly n*k proposal rounds and yielded  *)
(* exactly n states, and with store=True has called save_step exactly n    *)
(* times, raising the backend's iteration count by n (no other call having *)
(* written the backend meanwhile); a save happens on the k-th round of a   *)
(* block only, and the block's yield follows it before any further round.  *)
C1_RoundsYieldsSaves ==
    (InLoop /\ gen.pc # "failed") =>
        /\ obs.rounds = gen.i
        /\ Len(yielded) = gen.nyield
        /\ gen.nyield * gen.thin_by <= gen.i
        /\ gen.i <= (gen.nyield + 1) * gen.thin_by
        /\ (gen.store =>
              /\ obs.saves = gen.i \div gen.thin_by
              /\ (obs.alone => backend.iteration = obs.pre.iteration + obs.saves)
              /\ (obs.saves > gen.nyield =>
                    gen.pc = "running" /\ gen.i = (gen.nyield + 1) * gen.thin_by))
        /\ (Exhausted =>
              /\ obs.rounds = gen.iterations * gen.thin_by
              /\ Len(yielded) = gen.iterations
              /\ (gen.store => obs.saves = gen.iterations))

C1_Witness ==
    /\ Exhausted /\ gen.store /\ obs.alone
    /\ gen.thin_by = 2 /\ gen.iterations = 2
    /\ obs.rounds = 4 /\ obs.saves = 2 /\ Len(yielded) = 2

(* The evaluator calls the prologue makes: one per walker when the initial *)
(* state carries no log-probabilities.                                     *)
InitialEvals ==
    IF gen.initial_state.log_prob = None THEN Len(gen.initial_state.coords) ELSE 0

(* The consumer holds the generator between two pulls. *)
NotStarted == gen.pc = "created" \/ (gen.pc = "abandoned" /\ ~InLoop)
AtYield == gen.pc = "suspended" \/ (gen.pc = "abandoned" /\ InLoop)

(* C7: when the consumer of sample() (thin_by = k) has received j states,  *)
(* exactly j*k proposal rounds have run and, with store=True, exactly j    *)
(* checkpoints are persisted: the backend's iteration count is j higher    *)
(* than before the call and its chain is the old chain followed by the j   *)
(* yielded states.  Before the first pull nothing has run at all, and the  *)
(* evaluator has been called for the rounds run so far only.  (The backend *)
(* and the stream are compared while no other call has changed them.)      *)
C7_NothingAheadOfConsumer ==
    /\ NotStarted =>
          /\ obs.rounds = 0 /\ obs.evals = 0 /\ obs.grows = 0 /\ obs.saves = 0
          /\ yielded = <<>>
          /\ (obs.alone => backend = obs.pre /\ sampler.random = obs.random_pre)
    /\ AtYield =>
          /\ obs.rounds = Len(yielded) * gen.thin_by
          /\ obs.evals = InitialEvals + obs.rounds * sampler.nwalkers
          /\ (gen.store =>
                /\ obs.saves = Len(yielded)
                /\ (obs.alone =>
                      /\ backend.iteration = obs.pre.iteration + Len(yielded)
                      /\ backend.chain = obs.pre.chain \o yielded))

C7_Witness ==
    /\ gen.pc = "abandoned" /\ gen.store /\ obs.alone
    /\ gen.thin_by = 2 /\ gen.iterations = 2
    /\ Len(yielded) = 1 /\ obs.rounds = 2
    /\ obs.pre.iteration = 1 /\ backend.iteration = 2

(* C10: a sample() call with store=False never grows the backend nor saves *)
(* a step -- the backend's chain, iteration count, accepted counts and     *)
(* last snapshot stay what they were before the call, no other call having *)
(* written the backend meanwhile -- and it still runs iterations*thin_by   *)
(* rounds and yields `iterations` states.                                  *)
C10_StoreFalseLeavesBackend ==
    (gen.pc \notin {"none", "created"} /\ gen.caller = "user" /\ ~gen.store) =>
        /\ obs.grows = 0 /\ obs.saves = 0
        /\ (obs.alone => backend = obs.pre)
        /\ (Exhausted =>
              /\ obs.rounds = gen.iterations * gen.thin_by
              /\ Len(yielded) = gen.iterations)

C10_Witness ==
    /\ Exhausted /\ gen.caller = "user" /\ ~gen.store /\ obs.alone
    /\ gen.thin_by = 2 /\ gen.iterations = 2 /\ obs.rounds = 4
    /\ backend.iteration = 2 /\ backend.random_state # NoRState

(* The prologue of the current sample() call has run. *)
Started == obs.random0 # NoRState

ShapeOk(state) == Shape(state.coords) = <<sampler.nwalkers, sampler.ndim>>

(* The initial state carries no log-probabilities and the evaluator        *)
(* returns NaN for one of its walkers (and raises for none).               *)
NaNInitial ==
    /\ gen.pc # "none"
    /\ gen.initial_state # NoneState
    /\ gen.initial_state.log_prob = None
    /\ ShapeOk(gen.initial_state)
    /\ \E w \in 1 .. Len(gen.initial_state.coords) :
          FunctionWrapperCall(log_prob_fn, gen.initial_state.coords[w]).lp = NaN
    /\ \A w \in 1 .. Len(gen.initial_state.coords) :
          ~FunctionWrapperCall(log_prob_fn, gen.initial_state.coords[w]).raised

(* C6: if the initial state carries no log-probabilities and the evaluator *)
(* returns NaN for a walker of the initial ensemble, sample() fails with   *)
(* InvalidLogProbError before any state is yielded: no proposal round has  *)
(* run and the backend is neither grown nor written (it is what it was     *)
(* before the call, no other call having written it meanwhile).            *)
C6_NaNInitialFails ==
    NaNInitial =>
        /\ gen.pc \in {"created", "abandoned", "failed"}
        /\ (gen.pc = "failed" => op.err = "InvalidLogProbError")
        /\ yielded = <<>>
        /\ obs.rounds = 0 /\ obs.grows = 0 /\ obs.saves = 0
        /\ (obs.alone => backend = obs.pre)

C6_Witness ==
    /\ NaNInitial /\ gen.pc = "failed" /\ gen.store /\ gen.iterations = 2
    /\ obs.alone
    /\ op.err = "InvalidLogProbError"
    /\ obs.pre.iteration >= 1 /\ backend.iteration = obs.pre.iteration

(* C8: assigning random_state from a snapshot the stream rejects           *)
(* (malformed, or None as when sample() starts from a raw coordinate       *)
(* array) raises nothing and leaves the stream as it was; assigning a      *)
(* valid snapshot makes the stream's state that snapshot.                  *)
C8_SetterSilentOrExact ==
    /\ op.name = "set_random_state" =>
          /\ op.err = ""
          /\ sampler.random = IF op.arg \in RStates THEN op.arg ELSE op.before
    /\ (Started /\ ShapeOk(gen.initial_state) /\ obs.alone) =>
          /\ obs.random0 = IF gen.initial_state.random_state \in RStates
                           THEN gen.initial_state.random_state
                           ELSE obs.random_pre
          /\ op.err \notin {"TypeError", "AttributeError"}

C8_Witness ==
    /\ op.name = "set_random_state" /\ op.arg = BadRState
    /\ op.before = 2 /\ sampler.random = 2

(* C4 (as claimed): run_mcmc(None, n) on a sampler that has no previous    *)
(* state -- over a fresh backend and never run (before = 1), or over an    *)
(* initialized backend holding no step (before = 0) -- fails with          *)
(* MissingStateError before any round, evaluator call or backend write.    *)
C4_MissingStateEveryWay ==
    (op.name = "run_mcmc" /\ op.arg = 1 /\ op.before \in {0, 1}) =>
        /\ op.err = "MissingStateError"
        /\ gen.pc = "failed"
        /\ obs.rounds = 0 /\ obs.evals = 0 /\ obs.grows = 0
        /\ backend = obs.pre

(* The part of C4 the code does keep: a sampler whose _previous_state is   *)
(* None fails with MissingStateError and does nothing else.                *)
C4_MissingStateWhenNone ==
    (op.name = "run_mcmc" /\ op.arg = 1 /\ op.before = 1) =>
        /\ op.err = "MissingStateError"
        /\ gen.pc = "failed"
        /\ obs.rounds = 0 /\ obs.evals = 0 /\ obs.grows = 0
        /\ backend = obs.pre

(* C2 (as claimed): run_mcmc(None, n) issued after a run_mcmc(x0, m) that  *)
(* returned normally is accepted and starts from the final state of that   *)
(* call -- its coordinates, log-probabilities, blobs and snapshot, with    *)
(* the stream set to the snapshot -- and the backend then holds the old    *)
(* checkpoints followed by the new ones.                                   *)
C2_ResumeAfterRunMcmc ==
    (op.name = "run_mcmc" /\ op.arg = 1 /\ op.after = "run_mcmc") =>
        /\ op.err \notin {"MissingStateError", "AttributeError"}
        /\ (obs.prior # NoneState => gen.initial_state = obs.prior)
        /\ ((Started /\ obs.prior # NoneState) =>
               obs.random0 = obs.prior.random_state)
        /\ ((AtYield \/ Exhausted) => backend.chain = obs.pre.chain \o yielded)
        /\ (Exhausted => backend.iteration = obs.pre.iteration + gen.iterations)

(* The same with the earlier call having run at least one step. *)
C2_ResumeAfterSteps ==
    (obs.prior # NoneState) => C2_ResumeAfterRunMcmc

(* C5 (as claimed): acceptance_fraction is defined and in [0, 1] for every *)
(* walker in every state a constructed sampler reaches.                    *)
InUnit(q) == q.den > 0 /\ 0 <= q.num /\ q.num <= q.den

C5_AlwaysInUnit ==
    sampler.alive =>
        \A w \in 1 .. sampler.nwalkers : InUnit(acceptance_fraction(backend)[w])

(* C5 (amended): once the backend holds at least one step, every walker's  *)
(* acceptance_fraction is the backend's accepted count over its iteration  *)
(* count and lies in [0, 1].                                               *)
C5_InUnitOnceStored ==
    (sampler.alive /\ backend.iteration >= 1) =>
        \A w \in 1 .. sampler.nwalkers :
            /\ InUnit(acceptance_fraction(backend)[w])
            /\ acceptance_fraction(backend)[w].num = backend.accepted[w]
            /\ acceptance_fraction(backend)[w].den = backend.iteration

C5_Witness ==
    /\ sampler.alive /\ backend.iteration = 2 /\ gen.thin_by = 2
    /\ acceptance_fraction(backend)[1] = [num |-> 1, den |-> 2]

(* C9: a sampler constructed over an initialized backend of its shape that *)
(* holds a stored step leaves the backend as it is, sets its stream to the *)
(* backend's last snapshot and remembers the backend's last sample; a      *)
(* backend of another shape makes the construction fail with ShapeError.   *)
(* run_mcmc(None, n) on such a sampler starts from the last sample and     *)
(* leaves the old steps followed by n new ones.  (The backend is compared  *)
(* while no generator held beside the new sampler has written it.)         *)
C9_ReusedBackend ==
    /\ (op.name = "construct" /\ op.arg = 1 /\ obs.pre.initialized) =>
          IF obs.pre.shape = <<NWalkers, op.before>>
          THEN /\ op.err = "" /\ sampler.alive
               /\ (obs.pre.iteration >= 1 =>
                     /\ (obs.alone => backend = obs.pre)
                     /\ sampler.random = obs.pre.random_state
                     /\ sampler.has_previous_state
                     /\ sampler.previous_state = BackendGetLastSample(obs.pre))
          ELSE /\ op.err = "ShapeError" /\ ~sampler.alive
               /\ (obs.alone => backend = obs.pre)
    /\ (op.name = "run_mcmc" /\ op.arg = 1 /\ op.after = "construct"
        /\ obs.pre.iteration >= 1) =>
          /\ op.err \notin {"MissingStateError", "AttributeError"}
          /\ gen.initial_state = BackendGetLastSample(obs.pre)
          /\ (Started => obs.random0 = obs.pre.random_state)
          /\ ((AtYield \/ Exhausted) => backend.chain = obs.pre.chain \o yielded)
          /\ (Exhausted => backend.iteration = obs.pre.iteration + gen.iterations)

C9_Witness ==
    /\ op.name = "run_mcmc" /\ op.arg = 1 /\ op.after = "construct"
    /\ gen.pc = "returned" /\ gen.iterations = 2
    /\ obs.pre.iteration >= 1 /\ backend.iteration = obs.pre.iteration + 2

IsPrefix(a, b) == Len(a) <= Len(b) /\ SubSeq(b, 1, Len(a)) = a

(* The current call has the inputs of the remembered one, and no other    *)
(* call has changed the stream or the backend under it.                    *)
SameRun ==
    ref.set /\ InLoop /\ ~gen.tune /\ obs.alone /\ RunKey(gen, obs) = ref.key

(* C3: with the evaluator and the moves fixed (tune off), two sample()     *)
(* calls from the same initial state, with the stream in the same snapshot *)
(* when each starts and the same iterations and thin_by, yield the same    *)
(* sequence of states: coordinates, log-probabilities and snapshots --     *)
(* whatever the global generator and the backend were at either call.      *)
C3_SameInputsSameYields ==
    SameRun =>
        /\ IsPrefix(yielded, ref.seq)
        /\ (Exhausted => yielded = ref.seq)

C3_Witness ==
    /\ SameRun /\ Exhausted /\ ref.at < nops - 1
    /\ gen.iterations = 2 /\ Len(yielded) = 2
    /\ yielded[1] # yielded[2]
    /\ ambient # 0

(* Entry i of what compute_log_prob returns is the evaluator's value at    *)
(* walker i's coordinates.                                                 *)
InWalkerOrder(out, p) ==
    \A i \in 1 .. Len(p) :
        /\ out.log_prob[i] = FunctionWrapperCall(log_prob_fn, p[i]).lp
        /\ (out.blobs # None =>
               <<out.blobs[i]>> = FunctionWrapperCall(log_prob_fn, p[i]).blob)

(* C11: in per-walker mode, entry i of the log-probabilities and of the    *)
(* blobs compute_log_prob returns is the evaluator's result for walker i,  *)
(* whatever order the pool's workers finished in.                          *)
C11_WalkerOrder ==
    call.pc = "returned" =>
        /\ InWalkerOrder(call.out, call.p)
        /\ (log_prob_fn = "blob" => call.out.blobs # None)
        /\ call.out = compute_log_prob(log_prob_fn, call.p)

C11_Witness ==
    /\ call.pc = "returned" /\ log_prob_fn = "blob"
    /\ call.finished[1].task = NWalkers
    /\ call.out.log_prob[1] # call.out.log_prob[NWalkers]
    /\ call.out.blobs[1] # call.out.blobs[NWalkers]

(* C14: compute_log_prob on coordinates with an infinite or NaN entry      *)
(* fails with InvalidParameterError and no task is handed to the map: the  *)
(* evaluator is called for no walker, the finite ones included.            *)
C14_BadCoordsNoEval ==
    (call.pc # "idle" /\ (AnyEntry(call.p, CoordInf) \/ AnyEntry(call.p, CoordNaN))) =>
        /\ call.pc = "raised"
        /\ call.out.err = "InvalidParameterError"
        /\ call.pending = {} /\ call.finished = <<>> /\ call.out.calls = 0
        /\ compute_log_prob(log_prob_fn, call.p).err = "InvalidParameterError"
        /\ compute_log_prob(log_prob_fn, call.p).calls = 0

C14_Witness ==
    /\ call.pc = "raised" /\ call.out.err = "InvalidParameterError"
    /\ AnyEntry(call.p, CoordInf) /\ ~AnyEntry(call.p, CoordNaN)
    /\ \A d \in 1 .. NDim : call.p[1][d] \in Coord
    /\ call.finished = <<>>

(* What the prologue of sample() or the entry of run_mcmc raises before    *)
(* the thinning check is reached.                                          *)
EarlierErrors ==
    {"ShapeError", "EvaluatorFailure", "InvalidLogProbError", "MissingStateError",
     "AttributeError"}

(* The body of the current sample() call has run to its end or its failure.*)
Pulled == gen.pc \notin {"none", "created"} /\ ~NotStarted

ThinningRefused ==
    /\ gen.pc = "failed"
    /\ op.err \in EarlierErrors \cup {"InvalidThinningError"}
    /\ obs.rounds = 0 /\ yielded = <<>>
    /\ obs.grows = 0 /\ obs.saves = 0 /\ (obs.alone => backend = obs.pre)

(* C12 (as claimed): a sample() call whose thin_by is not a positive       *)
(* integer -- zero, negative or not whole -- fails (with                   *)
(* InvalidThinningError, unless its initial state is refused first) with   *)
(* no round run, no state yielded and the backend neither grown nor        *)
(* written.                                                                *)
C12_InvalidThinningFails ==
    (Pulled /\ ~IsPositiveInteger(kwargs.thin_by)) => ThinningRefused

(* The part of C12 the code keeps: thin_by values that int() takes to zero *)
(* or below are refused.                                                   *)
C12_NonPositiveFails ==
    (Pulled /\ IntOf(kwargs.thin_by) <= 0) => ThinningRefused

C12_NonPositiveWitness ==
    /\ Pulled /\ kwargs.thin_by = 1 /\ op.err = "InvalidThinningError"
    /\ gen.store /\ gen.iterations = 2 /\ obs.evals = NWalkers

(* The coordinates the current sample() call was given are not an array of *)
(* nwalkers rows of ndim entries.                                          *)
WrongShape ==
    /\ gen.initial_state # NoneState
    /\ \/ Len(gen.initial_state.coords) # sampler.nwalkers
       \/ \E w \in 1 .. Len(gen.initial_state.coords) :
             Len(gen.initial_state.coords[w]) # sampler.ndim

(* C13: sample() given coordinates of a shape other than (nwalkers, ndim)  *)
(* fails with ShapeError on the first pull: the evaluator has been called  *)
(* for no walker, the sampler's stream is what it was before the call --   *)
(* the state's snapshot is not taken -- the backend is neither grown nor   *)
(* written, and no state is yielded.  (The stream and the backend are      *)
(* compared while no other call has changed them.)                         *)
C13_WrongShapeFailsFirst ==
    (Pulled /\ WrongShape) =>
        /\ gen.pc = "failed" /\ op.err = "ShapeError"
        /\ obs.evals = 0 /\ obs.rounds = 0
        /\ obs.grows = 0 /\ obs.saves = 0
        /\ (obs.alone => sampler.random = obs.random_pre /\ backend = obs.pre)
        /\ yielded = <<>>

C13_Witness ==
    /\ Pulled /\ WrongShape /\ op.err = "ShapeError" /\ obs.alone
    /\ gen.initial_state.random_state \in RStates
    /\ gen.initial_state.random_state # sampler.random
    /\ gen.store /\ obs.pre.iteration >= 1

(* What sampler `id` yields when it runs alone from where it started. *)
Alone(id) ==
    SoloYields(log_prob_fn, pair.s[id].start.state, pair.s[id].start.random,
               pair.s[id].start.glob, 0, MaxIterations, 1)

(* C15: no operation of a sampler changes the global generator, and with   *)
(* the rounds of two samplers interleaved in any order each sampler's      *)
(* yields are those of its run alone.                                      *)
C15_SamplersIsolated ==
    /\ ambient = 0
    /\ \A id \in Samplers :
          pair.s[id].pc \in {"running", "failed"} =>
              /\ IsPrefix(pair.s[id].yields, Alone(id))
              /\ (pair.s[id].pc = "failed" =>
                     Len(Alone(id)) = Len(pair.s[id].yields))

C15_Witness ==
    /\ pair.log = <<1, 2, 2, 1>>
    /\ pair.s[1].yields # pair.s[2].yields
    /\ pair.s[1].start.random # pair.s[2].start.random
    /\ \A id \in Samplers : Len(pair.s[id].yields) = MaxIterations

(* What one sample() call of `total` iterations yields when it is started  *)
(* with the inputs `key`: the prologue, then the loop on its own.          *)
Single(key, total) ==
    LET g == NewGen("user", key.initial_state, total, FALSE,
                    [thin_by |-> Half * key.thin_by, thin |-> key.thin,
                     tune |-> FALSE])
        r == SamplePrologue(g, [sampler EXCEPT !.random = key.random], backend,
                            log_prob_fn)
    IN  IF r.err # "" THEN <<>>
        ELSE SoloYields(log_prob_fn, r.state, r.random, ambient, param, total,
                        key.thin_by)

(* The current call goes on from the last state the remembered call        *)
(* yielded, with the same thin_by and tune off, no other call having       *)
(* changed the stream or the backend under it.                             *)
Continues ==
    /\ ref.set /\ ref.at < nops /\ ref.seq # <<>>
    /\ InLoop /\ ~gen.tune /\ ~ref.key.tune /\ obs.alone
    /\ gen.thin_by = ref.key.thin_by
    /\ gen.initial_state = ref.seq[Len(ref.seq)]

(* C16: with tune off and the same thin_by, a sample() call of n           *)
(* iterations from S followed by one of m iterations from the last state   *)
(* it yielded yields, concatenated, the states of a single call of n+m     *)
(* iterations from S started with the stream in the same snapshot; and a   *)
(* single call yields what the loop run on its own yields.                 *)
C16_ResumeEqualsSingleRun ==
    /\ (InLoop /\ ~gen.tune /\ obs.alone) =>
          /\ IsPrefix(yielded, Single(RunKey(gen, obs), gen.iterations))
          /\ (Exhausted => yielded = Single(RunKey(gen, obs), gen.iterations))
    /\ Continues =>
          /\ IsPrefix(ref.seq \o yielded,
                      Single(ref.key, Len(ref.seq) + gen.iterations))
          /\ (Exhausted =>
                 ref.seq \o yielded =
                     Single(ref.key, Len(ref.seq) + gen.iterations))

C16_Witness ==
    /\ Continues /\ Exhausted
    /\ gen.iterations >= 1 /\ Len(ref.seq) + gen.iterations >= 3
    /\ obs.random_pre # gen.initial_state.random_state
    /\ yielded[1] # ref.seq[1]

(* The generator is at its `yield state`: the block is complete. *)
Yielding ==
    InLoop /\ gen.pc = "running" /\ gen.i = (gen.nyield + 1) * gen.yield_step

(* What holds of a state `st` that is yielded. *)
CurrentAndSaved(st) ==
    /\ st.random_state = sampler.random
    /\ (gen.store =>
          /\ backend.iteration >= 1
          /\ backend.chain[backend.iteration] = st
          /\ backend.random_state = st.random_state
          /\ BackendGetLastSample(backend) = st)

(* C17: at every yield of sample() the yielded state's snapshot is the     *)
(* state of the sampler's stream, and with store=True the yielded state is *)
(* the state last handed to save_step: the backend's last sample and its   *)
(* last-persisted snapshot are the yielded state's.  This holds at the     *)
(* moment of the yield, and for as long afterwards as the consumer has not *)
(* pulled again and no other call has changed the stream or the backend.   *)
C17_YieldIsCurrentAndSaved ==
    /\ Yielding => CurrentAndSaved(gen.state)
    /\ (AtYield /\ yielded # <<>>) =>
          /\ yielded[Len(yielded)] = gen.state
          /\ (obs.alone => CurrentAndSaved(yielded[Len(yielded)]))

C17_Witness ==
    /\ gen.pc = "suspended" /\ gen.store /\ gen.thin_by = 2 /\ obs.alone
    /\ Len(yielded) = 2 /\ yielded[1] # yielded[2]
    /\ backend.iteration = 2
    /\ gen.initial_state.random_state # sampler.random

(* The steps a round takes when it is the round of a checkpoint or not. *)
StepsOfRound(tuned, saved) ==
    <<"choose", "propose", "record">>
    \o (IF tuned THEN <<"tune">> ELSE <<>>)
    \o (IF saved THEN <<"save">> ELSE <<>>)

(* C18: a round draws one move, calls its propose, records the stream's    *)
(* snapshot in the new state, calls tune and persists, in this order.      *)
(* With the tune flag set tune is called once in every round, on the move  *)
(* drawn in that round and with that round's new state and acceptance      *)
(* mask; with the flag not set it is never called.                         *)
C18_RoundOrderAndTune ==
    (InLoop /\ obs.rounds >= 1) =>
        /\ obs.tunes = IF gen.tune THEN gen.i ELSE 0
        /\ (gen.pc = "failed" =>
               /\ obs.last.steps = <<"choose", "propose">>
               /\ ~obs.last.tuned.called)
        /\ (gen.pc # "failed" =>
               /\ obs.last.steps =
                      StepsOfRound(gen.tune, gen.store /\ gen.i % gen.thin_by = 0)
               /\ obs.last.tuned.called = gen.tune
               /\ obs.last.move \in Moves
               /\ (gen.tune =>
                      /\ obs.last.tuned.move = obs.last.move
                      /\ obs.last.tuned.state = gen.state
                      /\ (obs.alone =>
                            obs.last.tuned.state.random_state = sampler.random)
                      /\ obs.last.tuned.accepted = obs.last.accepted))

C18_Witness ==
    /\ InLoop /\ gen.tune /\ gen.store /\ gen.pc = "suspended"
    /\ obs.tunes = 2 /\ obs.last.move = 2 /\ param = 1
    /\ obs.last.steps = <<"choose", "propose", "record", "tune", "save">>

(* C19 (as claimed): when run_mcmc(None, .) is called after a run_mcmc     *)
(* that returned, or after one that failed in a round once it had          *)
(* persisted checkpoints, and the backend holds a step, the state it       *)
(* starts from is the last checkpoint persisted in the backend.            *)
C19_ResumesFromLastCheckpoint ==
    (op.name = "run_mcmc" /\ op.arg = 1
     /\ op.after \in {"run_mcmc", "failed_run_mcmc"}
     /\ obs.pre.iteration >= 1) =>
        gen.initial_state = BackendGetLastSample(obs.pre)

(* The part of C19 the code keeps: after a run_mcmc that returned a state  *)
(* the next resume starts from the last checkpoint.                        *)
C19_AfterReturnedState ==
    (op.name = "run_mcmc" /\ op.arg = 1 /\ op.after = "run_mcmc"
     /\ obs.prior # NoneState) =>
        gen.initial_state = BackendGetLastSample(obs.pre)

(* C20 (as claimed): a run_mcmc call that returns normally, whatever its   *)
(* nsteps >= 0, returns a state and leaves the sampler with a remembered   *)
(* previous state.                                                         *)
C20_RunMcmcRemembersState ==
    gen.pc = "returned" =>
        /\ Results # NoneState
        /\ sampler.has_previous_state
        /\ sampler.previous_state # NoneState

(* The part of C20 the code keeps: calls of at least one step. *)
C20_AfterSteps ==
    (gen.pc = "returned" /\ gen.iterations >= 1) =>
        /\ Results # NoneState
        /\ sampler.previous_state = Results

(* The rows a sample() call that entered its loop asked the backend for:   *)
(* iterations on the thin_by path, iterations // thin on the thin path.    *)
RowsAskedFor ==
    IF gen.thin = None THEN gen.iterations ELSE gen.iterations \div gen.thin[1]

(* C21: a sample() call with store=True grows the backend once, in its     *)
(* prologue and so before its first proposal round, by iterations rows on  *)
(* the thin_by path and by iterations // thin rows on the thin path; the   *)
(* steps it has saved never exceed the rows it grew by, and are as many    *)
(* when it is exhausted.  On the thin path every round is yielded and      *)
(* every thin-th round is saved.                                           *)
C21_GrownOnceSavesWithinGrowth ==
    gen.store =>
        /\ obs.grows <= 1
        /\ (obs.rounds >= 1 => obs.grows = 1)
        /\ (InLoop => obs.grows = 1 /\ obs.grown = RowsAskedFor)
        /\ obs.saves <= obs.grown
        /\ (InLoop => /\ obs.saves = gen.i \div gen.checkpoint_step
                      /\ (obs.alone => backend.iteration <= backend.allocated))
        /\ ((InLoop /\ gen.thin # None) =>
               /\ gen.yield_step = 1
               /\ gen.nyield <= gen.i /\ gen.i <= gen.nyield + 1
               /\ (gen.pc # "running" => Len(yielded) = gen.i))
        /\ (Exhausted => obs.saves = obs.grown)

(* A call on the thin path with thin = MaxThin is exhausted: it yielded    *)
(* after every round and saved once, into the one row it grew by.          *)
C21_Witness ==
    /\ gen.store /\ Exhausted /\ gen.thin = <<MaxThin>>
    /\ gen.iterations = MaxIterations
    /\ obs.rounds = MaxIterations /\ Len(yielded) = MaxIterations
    /\ obs.grows = 1 /\ obs.grown = MaxIterations \div MaxThin
    /\ obs.saves = obs.grown /\ obs.saves >= 1

====
